---- MODULE Spec2Model ----
(***************************************************************************)
(* The summarization pipeline of summarizer.py: SummarizerManager (model   *)
(* hierarchy loading), TextProcessor (clean_text, chunk_text),             *)
(* ExtractiveSummarizer.summarize and SmartSummarizer.generate_summary     *)
(* with its helpers.                                                       *)
(*                                                                         *)
(* A Python str is a sequence of one-character strings.  The transformers  *)
(* pipeline is the environment: loading a model succeeds or raises, and an *)
(* inference call returns a text or raises.                                *)
(***************************************************************************)
EXTENDS Integers, Sequences, FiniteSets, TLC

VARIABLES
    pc,               \* position of the program: construction, idle, inside a request
    summarizer,       \* SummarizerManager.summarizer: None or the loaded descriptor
    load_idx,         \* descriptor the loop of _initialize_summarizer is at
    attempted,        \* the pipeline() calls of the constructor, in call order
    text,             \* generate_summary argument
    min_len,          \* generate_summary argument
    max_len,          \* generate_summary argument
    cleaned_text,     \* local of generate_summary
    chunks,           \* local of _handle_long_text
    chunk_idx,        \* position of the for loop of _handle_long_text
    chunk_summaries,  \* local of _handle_long_text
    calls,            \* log of model inference and extractive calls of the request
    path,             \* branches the request took
    result,           \* return value of generate_summary
    raised,           \* exception that left generate_summary
    fn_in,            \* input of the pure-function harnesses
    fn_arg,           \* integer argument of the pure-function harnesses
    fn_out            \* output of the pure-function harnesses

vars == <<pc, summarizer, load_idx, attempted, text, min_len, max_len,
          cleaned_text, chunks, chunk_idx, chunk_summaries, calls, path,
          result, raised, fn_in, fn_arg, fn_out>>

None == "None"

-----------------------------------------------------------------------------
(* Python str primitives *)

\* str.isspace for one character
IsSpace(c) == c \in {" ", "\n"}

\* the punctuation clean_text keeps
Punctuation == {".", ",", "!", "?", ";", ":", "-"}

\* characters that are neither \w, \s nor kept punctuation
Special == {"#", "@", "(", ")", "*"}

\* \w of the re module: every other character of the model's alphabet
IsWordChar(c) == ~IsSpace(c) /\ c \notin Punctuation /\ c \notin Special

Max(a, b) == IF a >= b THEN a ELSE b
Min(a, b) == IF a <= b THEN a ELSE b

\* ascending enumeration of a finite set of integers
SortedSeq(P) ==
    [j \in 1..Cardinality(P) |->
        CHOOSE p \in P : Cardinality({q \in P : q < p}) = j - 1]

\* str.split(sep) for a separator of one or two characters; the matches of
\* '.' and of '. ' cannot overlap, so the left-to-right scan finds them all
SplitAt(s, P, seplen) ==
    LET pos == SortedSeq(P)
        k == Len(pos)
    IN [j \in 1..(k + 1) |->
          SubSeq(s,
                 IF j = 1 THEN 1 ELSE pos[j - 1] + seplen,
                 IF j = k + 1 THEN Len(s) ELSE pos[j] - 1)]

\* s.split('.')
SplitDot(s) == SplitAt(s, {i \in 1..Len(s) : s[i] = "."}, 1)

\* s.split('. ')
SplitDotSpace(s) ==
    SplitAt(s, {i \in 1..(Len(s) - 1) : s[i] = "." /\ s[i + 1] = " "}, 2)

RECURSIVE LeadingSpaces(_, _)
LeadingSpaces(s, i) ==
    IF i > Len(s) \/ ~IsSpace(s[i]) THEN i - 1 ELSE LeadingSpaces(s, i + 1)

RECURSIVE TrailingSpaces(_, _)
TrailingSpaces(s, i) ==
    IF i < 1 \/ ~IsSpace(s[i]) THEN Len(s) - i ELSE TrailingSpaces(s, i - 1)

\* s.strip()
Strip(s) ==
    LET a == LeadingSpaces(s, 1)
    IN IF a = Len(s) THEN <<>>
       ELSE SubSeq(s, a + 1, Len(s) - TrailingSpaces(s, Len(s)))

\* len(s.split()): the number of maximal runs of non-whitespace
WordCount(s) ==
    Cardinality({i \in 1..Len(s) :
                    ~IsSpace(s[i]) /\ (i = 1 \/ IsSpace(s[i - 1]))})

\* sep.join(parts)
RECURSIVE Join(_, _)
Join(parts, sep) ==
    IF parts = <<>> THEN <<>>
    ELSE IF Len(parts) = 1 THEN parts[1]
    ELSE parts[1] \o sep \o Join(Tail(parts), sep)

\* [f(x) for x in xs]
MapSeq(xs, F(_)) == [i \in 1..Len(xs) |-> F(xs[i])]

DotSpace == <<".", " ">>

-----------------------------------------------------------------------------
(* TextProcessor *)

\* re.sub(r'\s+', ' ', text)
CollapseSpaces(s) ==
    SelectSeq([i \in 1..Len(s) |->
                  IF IsSpace(s[i])
                  THEN (IF i > 1 /\ IsSpace(s[i - 1]) THEN "" ELSE " ")
                  ELSE s[i]],
              LAMBDA c : c # "")

KeptChar(c) == IsWordChar(c) \/ IsSpace(c) \/ c \in Punctuation

\* re.sub(r'[^\w\s.,!?;:-]', '', text)
RemoveSpecial(s) == SelectSeq(s, KeptChar)

MinLineChars == 10

\* variant: >= in place of > in the test on the length of a line
clean_text_ge(t) ==
    LET t1 == CollapseSpaces(t)
        t2 == RemoveSpecial(t1)
        lines == SplitDot(t2)
        kept == MapSeq(SelectSeq(lines, LAMBDA l : Len(Strip(l)) >= MinLineChars),
                       Strip)
    IN Strip(Join(kept, DotSpace))

clean_text(t) ==
    LET t1 == CollapseSpaces(t)
        t2 == RemoveSpecial(t1)
        lines == SplitDot(t2)
        kept == MapSeq(SelectSeq(lines, LAMBDA l : Len(Strip(l)) > MinLineChars),
                       Strip)
    IN Strip(Join(kept, DotSpace))

\* variant: >= in place of > in the test that closes a chunk
ChunkStep_ge(st, sentence, max_chunk_length) ==
    LET sentence_length == WordCount(sentence)
    IN IF st.current_length + sentence_length >= max_chunk_length
          /\ st.current_chunk # <<>>
       THEN [chunks |-> Append(st.chunks, Join(st.current_chunk, DotSpace) \o <<".">>),
             current_chunk |-> <<sentence>>,
             current_length |-> sentence_length]
       ELSE [chunks |-> st.chunks,
             current_chunk |-> Append(st.current_chunk, sentence),
             current_length |-> st.current_length + sentence_length]

\* one iteration of the for loop of chunk_text
ChunkStep(st, sentence, max_chunk_length) ==
    LET sentence_length == WordCount(sentence)
    IN IF st.current_length + sentence_length > max_chunk_length
          /\ st.current_chunk # <<>>
       THEN [chunks |-> Append(st.chunks, Join(st.current_chunk, DotSpace) \o <<".">>),
             current_chunk |-> <<sentence>>,
             current_length |-> sentence_length]
       ELSE [chunks |-> st.chunks,
             current_chunk |-> Append(st.current_chunk, sentence),
             current_length |-> st.current_length + sentence_length]

RECURSIVE ChunkLoop(_, _, _, _)
ChunkLoop(st, sentences, i, max_chunk_length) ==
    IF i > Len(sentences) THEN st
    ELSE ChunkLoop(ChunkStep(st, sentences[i], max_chunk_length),
                   sentences, i + 1, max_chunk_length)

\* variant: the final partial chunk is not emitted
chunk_text_no_tail(t, max_chunk_length) ==
    ChunkLoop([chunks |-> <<>>, current_chunk |-> <<>>, current_length |-> 0],
              SplitDotSpace(t), 1, max_chunk_length).chunks

chunk_text(t, max_chunk_length) ==
    LET sentences == SplitDotSpace(t)
        st == ChunkLoop([chunks |-> <<>>, current_chunk |-> <<>>,
                         current_length |-> 0],
                        sentences, 1, max_chunk_length)
    IN IF st.current_chunk # <<>>
       THEN Append(st.chunks, Join(st.current_chunk, DotSpace) \o <<".">>)
       ELSE st.chunks

DefaultChunkLength == 1000

-----------------------------------------------------------------------------
(* Return values: a Python call returns a value or raises *)

Returned(v) == [exc |-> None, type |-> "str", val |-> v]
Raised(e) == [exc |-> e, type |-> None, val |-> <<>>]

TooShortMessage ==
    <<"T", "e", "x", "t", " ", "i", "s", " ", "t", "o", "o", " ", "s", "h",
      "o", "r", "t", " ", "t", "o", " ", "g", "e", "n", "e", "r", "a", "t",
      "e", " ", "a", " ", "m", "e", "a", "n", "i", "n", "g", "f", "u", "l",
      " ", "s", "u", "m", "m", "a", "r", "y", ".">>

UnableMessage ==
    <<"U", "n", "a", "b", "l", "e", " ", "t", "o", " ", "g", "e", "n", "e",
      "r", "a", "t", "e", " ", "s", "u", "m", "m", "a", "r", "y", " ", "f",
      "r", "o", "m", " ", "t", "h", "e", " ", "p", "r", "o", "v", "i", "d",
      "e", "d", " ", "t", "e", "x", "t", ".">>

\* f"Error generating summary: {str(final_error)}. Please try with a different text."
\* str(final_error) is left out: only the kind of the exception is modelled
ErrorMessage ==
    <<"E", "r", "r", "o", "r", " ", "g", "e", "n", "e", "r", "a", "t", "i",
      "n", "g", " ", "s", "u", "m", "m", "a", "r", "y", ":", " ", ".", " ",
      "P", "l", "e", "a", "s", "e", " ", "t", "r", "y", " ", "w", "i", "t",
      "h", " ", "a", " ", "d", "i", "f", "f", "e", "r", "e", "n", "t", " ",
      "t", "e", "x", "t", ".">>

-----------------------------------------------------------------------------
(* ExtractiveSummarizer *)

MinSentenceChars == 20

\* sum(len(s.split()) for s in sentences)
RECURSIVE SumWords(_, _)
SumWords(sentences, i) ==
    IF i > Len(sentences) THEN 0
    ELSE WordCount(sentences[i]) + SumWords(sentences, i + 1)

\* variant: >= in place of > in the length filter
SurvivingSentences_ge(t) ==
    MapSeq(SelectSeq(SplitDotSpace(t),
                     LAMBDA s : Len(Strip(s)) >= MinSentenceChars),
           LAMBDA s : Strip(s) \o <<".">>)

\* the sentences ExtractiveSummarizer.summarize works on
SurvivingSentences(t) ==
    MapSeq(SelectSeq(SplitDotSpace(t),
                     LAMBDA s : Len(Strip(s)) > MinSentenceChars),
           LAMBDA s : Strip(s) \o <<".">>)

\* variant: the operands of the average are exchanged
IntAvgSentenceLength_swapped(sentences) ==
    Len(sentences) \div SumWords(sentences, 1)

\* int(avg_sentence_length): the average is not negative, int() is its floor
IntAvgSentenceLength(sentences) == SumWords(sentences, 1) \div Len(sentences)

\* variant: the middle run starts at the half of the document
SelectSentences_half(sentences, target_sentences) ==
    LET n == Len(sentences)
        middle_start == n \div 2
        middle_end == Min(n, middle_start + target_sentences - 2)
        first == <<sentences[1]>>
        with_middle == IF target_sentences > 2
                       THEN first \o SubSeq(sentences, middle_start + 1, middle_end)
                       ELSE first
    IN IF Len(with_middle) < target_sentences /\ n > 1
       THEN Append(with_middle, sentences[n])
       ELSE with_middle

\* the first / middle / last selection
SelectSentences(sentences, target_sentences) ==
    LET n == Len(sentences)
        middle_start == n \div 3
        middle_end == Min(n, middle_start + target_sentences - 2)
        first == <<sentences[1]>>
        with_middle == IF target_sentences > 2
                       THEN first \o SubSeq(sentences, middle_start + 1, middle_end)
                       ELSE first
    IN IF Len(with_middle) < target_sentences /\ n > 1
       THEN Append(with_middle, sentences[n])
       ELSE with_middle

\* variant: the target length is divided by the exact average
TargetSentences_exact(sentences, target_length) ==
    Max(1, Min(Len(sentences),
               (target_length * Len(sentences)) \div SumWords(sentences, 1)))

\* target_sentences, for a divisor that is not zero
TargetSentences(sentences, target_length) ==
    Max(1, Min(Len(sentences),
               target_length \div IntAvgSentenceLength(sentences)))

summarize(t, target_length) ==
    LET sentences == SurvivingSentences(t)
    IN IF sentences = <<>> THEN Returned(UnableMessage)
       ELSE LET divisor == IntAvgSentenceLength(sentences)
            IN IF divisor = 0 THEN Raised("ZeroDivisionError")
               ELSE LET target_sentences ==
                            TargetSentences(sentences, target_length)
                    IN IF Len(sentences) <= target_sentences
                       THEN Returned(Join(sentences, <<" ">>))
                       ELSE Returned(Join(SelectSentences(sentences, target_sentences),
                                          <<" ">>))

-----------------------------------------------------------------------------
(* SummarizerManager *)

ModelHierarchy == <<"BART-large-CNN", "BART-base", "DistilBART", "T5-small">>

\* variant: the loop goes on after a successful load (the return is missing)
InitializeStep_no_return(idx, loaded) ==
    IF idx < Len(ModelHierarchy)
    THEN [summarizer |-> IF loaded THEN ModelHierarchy[idx] ELSE None,
          load_idx |-> idx + 1, pc |-> "construct"]
    ELSE [summarizer |-> IF loaded THEN ModelHierarchy[idx] ELSE None,
          load_idx |-> idx, pc |-> "ready"]

\* one iteration of the for loop of _initialize_summarizer: pipeline() for the
\* descriptor at idx either returned (loaded) or raised
InitializeStep(idx, loaded) ==
    IF loaded
    THEN [summarizer |-> ModelHierarchy[idx], load_idx |-> idx, pc |-> "ready"]
    ELSE IF idx < Len(ModelHierarchy)
         THEN [summarizer |-> None, load_idx |-> idx + 1, pc |-> "construct"]
         ELSE [summarizer |-> None, load_idx |-> idx, pc |-> "ready"]

-----------------------------------------------------------------------------
(* SmartSummarizer *)

MinWords == 50
LongTextWords == 1000
MinChunkWords == 50
ChunkMinFloor == 20
ChunkMaxCap == 130

\* exceptions a model inference call may raise
BuiltinErrors == {"ValueError", "RuntimeError", "KeyError"}
OtherErrors == {"IndexError"}

ModelCall(t, mn, mx, outcome) ==
    [fn |-> "model", text |-> t, min_length |-> mn, max_length |-> mx,
     outcome |-> outcome.kind]

ExtractiveCall(t, target) == [fn |-> "extractive", text |-> t, target |-> target]

\* a return value together with the calls made to obtain it
WithLog(r, log) == [exc |-> r.exc, type |-> r.type, val |-> r.val, log |-> log]

\* variant: returns the pipeline's list instead of its summary_text
_summarize_with_pipeline_raw(t, mn, mx, outcome) ==
    IF outcome.kind = "text"
    THEN WithLog([exc |-> None, type |-> "list", val |-> <<>>],
                 <<ModelCall(t, mn, mx, outcome)>>)
    ELSE WithLog(summarize(t, mx),
                 <<ModelCall(t, mn, mx, outcome), ExtractiveCall(t, mx)>>)

\* variant: the fallback is given min_len as its target
_summarize_with_pipeline_min(t, mn, mx, outcome) ==
    IF outcome.kind = "text"
    THEN WithLog(Returned(outcome.summary[1].summary_text),
                 <<ModelCall(t, mn, mx, outcome)>>)
    ELSE WithLog(summarize(t, mn),
                 <<ModelCall(t, mn, mx, outcome), ExtractiveCall(t, mn)>>)

\* variant: an exception outside the three named ones gets min_len as target
_summarize_with_pipeline_kind(t, mn, mx, outcome) ==
    IF outcome.kind = "text"
    THEN WithLog(Returned(outcome.summary[1].summary_text),
                 <<ModelCall(t, mn, mx, outcome)>>)
    ELSE IF outcome.exc \in BuiltinErrors
    THEN WithLog(summarize(t, mx),
                 <<ModelCall(t, mn, mx, outcome), ExtractiveCall(t, mx)>>)
    ELSE WithLog(summarize(t, mn),
                 <<ModelCall(t, mn, mx, outcome), ExtractiveCall(t, mx)>>)

\* variant: a call that raised is tried once more before the fallback
_summarize_with_pipeline_retry(t, mn, mx, outcome) ==
    IF outcome.kind = "text"
    THEN WithLog(Returned(outcome.summary[1].summary_text),
                 <<ModelCall(t, mn, mx, outcome)>>)
    ELSE WithLog(summarize(t, mx),
                 <<ModelCall(t, mn, mx, outcome), ModelCall(t, mn, mx, outcome),
                   ExtractiveCall(t, mx)>>)

\* variant: only ValueError, RuntimeError and KeyError are caught
_summarize_with_pipeline_narrow(t, mn, mx, outcome) ==
    IF outcome.kind = "text"
    THEN WithLog(Returned(outcome.summary[1].summary_text),
                 <<ModelCall(t, mn, mx, outcome)>>)
    ELSE IF outcome.exc \in BuiltinErrors
    THEN WithLog(summarize(t, mx),
                 <<ModelCall(t, mn, mx, outcome), ExtractiveCall(t, mx)>>)
    ELSE WithLog(Raised(outcome.exc), <<ModelCall(t, mn, mx, outcome)>>)

_summarize_with_pipeline(t, mn, mx, outcome) ==
    IF outcome.kind = "text"
    THEN WithLog(Returned(outcome.summary[1].summary_text),
                 <<ModelCall(t, mn, mx, outcome)>>)
    ELSE IF outcome.exc \in BuiltinErrors
    THEN WithLog(summarize(t, mx),
                 <<ModelCall(t, mn, mx, outcome), ExtractiveCall(t, mx)>>)
    ELSE WithLog(summarize(t, mx),
                 <<ModelCall(t, mn, mx, outcome), ExtractiveCall(t, mx)>>)

_handle_short_text(t, mn, mx, outcome) == _summarize_with_pipeline(t, mn, mx, outcome)

\* variant: the overall maximum is not divided by the chunk count
chunk_max_len_undivided(mx, n_chunks) == Min(ChunkMaxCap, mx)

chunk_min_len(mn, n_chunks) == Max(ChunkMinFloor, mn \div n_chunks)
chunk_max_len(mx, n_chunks) == Min(ChunkMaxCap, mx \div n_chunks)

\* variant: a per-chunk minimum above the per-chunk maximum is lowered to it
ChunkIteration_clamped(chunk, n_chunks, mn, mx, outcome) ==
    IF WordCount(chunk) > MinChunkWords
    THEN LET r == _summarize_with_pipeline(chunk,
                      Min(chunk_min_len(mn, n_chunks), chunk_max_len(mx, n_chunks)),
                      chunk_max_len(mx, n_chunks), outcome)
         IN IF r.exc = None
            THEN [exc |-> None, summaries |-> <<r.val>>, log |-> r.log]
            ELSE LET f == summarize(chunk, mx \div n_chunks)
                 IN [exc |-> f.exc,
                     summaries |-> IF f.exc = None THEN <<f.val>> ELSE <<>>,
                     log |-> Append(r.log, ExtractiveCall(chunk, mx \div n_chunks))]
    ELSE [exc |-> None, summaries |-> <<>>, log |-> <<>>]

\* one iteration of the for loop of _handle_long_text; summaries is what the
\* iteration appends to chunk_summaries
ChunkIteration(chunk, n_chunks, mn, mx, outcome) ==
    IF WordCount(chunk) > MinChunkWords
    THEN LET r == _summarize_with_pipeline(chunk, chunk_min_len(mn, n_chunks),
                                           chunk_max_len(mx, n_chunks), outcome)
         IN IF r.exc = None
            THEN [exc |-> None, summaries |-> <<r.val>>, log |-> r.log]
            ELSE LET f == summarize(chunk, mx \div n_chunks)
                 IN [exc |-> f.exc,
                     summaries |-> IF f.exc = None THEN <<f.val>> ELSE <<>>,
                     log |-> Append(r.log, ExtractiveCall(chunk, mx \div n_chunks))]
    ELSE [exc |-> None, summaries |-> <<>>, log |-> <<>>]

\* variant: the summaries are joined like sentences
Combined_dotspace(summaries) == Join(summaries, DotSpace)

\* ' '.join(chunk_summaries)
Combined(summaries) == Join(summaries, <<" ">>)

\* variant: >= in place of >
NeedsFinalPass_ge(summaries, mx) == WordCount(Combined(summaries)) >= mx

\* the test of _handle_long_text that decides on the further pass
NeedsFinalPass(summaries, mx) == WordCount(Combined(summaries)) > mx

\* variant: <= in place of < in the too-short test
Route_le(cleaned, mgr) ==
    IF WordCount(cleaned) <= MinWords THEN "too_short"
    ELSE IF mgr = None THEN "extractive"
    ELSE IF WordCount(cleaned) > LongTextWords THEN "chunked"
    ELSE "direct"

\* variant: the test for a missing model is left out
Route_no_none_test(cleaned, mgr) ==
    IF WordCount(cleaned) < MinWords THEN "too_short"
    ELSE IF WordCount(cleaned) > LongTextWords THEN "chunked"
    ELSE "direct"

\* variant: >= in place of > in the long-text test
Route_ge(cleaned, mgr) ==
    IF WordCount(cleaned) < MinWords THEN "too_short"
    ELSE IF mgr = None THEN "extractive"
    ELSE IF WordCount(cleaned) >= LongTextWords THEN "chunked"
    ELSE "direct"

\* variant: the length test comes before the test for a missing model
Route_length_first(cleaned, mgr) ==
    IF WordCount(cleaned) < MinWords THEN "too_short"
    ELSE IF WordCount(cleaned) > LongTextWords THEN "chunked"
    ELSE IF mgr = None THEN "extractive"
    ELSE "direct"

\* the branch generate_summary takes once the text is cleaned
Route(cleaned, mgr) ==
    IF WordCount(cleaned) < MinWords THEN "too_short"
    ELSE IF mgr = None THEN "extractive"
    ELSE IF WordCount(cleaned) > LongTextWords THEN "chunked"
    ELSE "direct"

\* the except clauses of generate_summary: clean again, summarize extractively,
\* and give the error text if that raises too
OuterFailureNet(t, mx) ==
    LET r == summarize(clean_text(t), mx)
    IN WithLog(IF r.exc = None THEN r ELSE Returned(ErrorMessage),
               <<ExtractiveCall(clean_text(t), mx)>>)

\* what generate_summary returns when its try block ended with r
Outcome(r, t, mx) ==
    IF r.exc = None THEN [ret |-> [exc |-> None, type |-> r.type, val |-> r.val],
                          log |-> r.log, net |-> {}]
    ELSE LET f == OuterFailureNet(t, mx)
         IN [ret |-> [exc |-> f.exc, type |-> f.type, val |-> f.val],
             log |-> r.log \o f.log, net |-> {"outer_net"}]

\* the module-level generate_summary: construction, then the method, in a try
module_generate_summary ==
    IF raised # None
    THEN Returned(<<"E", "r", "r", "o", "r", " ", "g", "e", "n", "e", "r", "a",
                    "t", "i", "n", "g", " ", "s", "u", "m", "m", "a", "r", "y",
                    ":", " ">>)
    ELSE result

-----------------------------------------------------------------------------
(* SummaryStats *)

\* variant: every fragment is counted as a sentence, blank ones included
get_stats_unfiltered(summary) ==
    [words |-> WordCount(summary),
     characters |-> Len(summary),
     sentences |-> Len(SplitDot(summary))]

get_stats(summary) ==
    [words |-> WordCount(summary),
     characters |-> Len(summary),
     sentences |-> Len(SelectSeq(SplitDot(summary), LAMBDA s : Strip(s) # <<>>))]

-----------------------------------------------------------------------------
(* Inputs of the environment *)

MaxSentences == 2

SentenceWords == {5, 45, 50, 500, 1000}

LengthPairs == {<<30, 300>>, <<100, 200>>, <<75, 149>>}

ModelOutWords == {12, 150}

\* k one-letter words
Sentence(k) == [i \in 1..(2 * k - 1) |-> IF i % 2 = 1 THEN "a" ELSE " "]

Recipes == UNION {[1..n -> SentenceWords] : n \in 0..MaxSentences}

\* a document: sentences ended by '.', a line break and a space between them,
\* a stray character in front
TextOf(recipe) ==
    <<"#">> \o Join(MapSeq(recipe, Sentence), <<".", "\n", " ">>) \o <<".">>

Texts == {TextOf(r) : r \in Recipes}

Outcomes ==
    {[kind |-> "text", summary |-> <<[summary_text |-> Sentence(k) \o <<".">>]>>] :
        k \in ModelOutWords}
    \cup {[kind |-> "raise", exc |-> e] : e \in BuiltinErrors \cup OtherErrors}

NoResult == [exc |-> None, type |-> None, val |-> <<>>]

-----------------------------------------------------------------------------
(* Actions *)

RequestIdle ==
    /\ text = <<>> /\ min_len = 0 /\ max_len = 0 /\ cleaned_text = <<>>
    /\ chunks = <<>> /\ chunk_idx = 0 /\ chunk_summaries = <<>>
    /\ calls = <<>> /\ path = {} /\ result = NoResult /\ raised = None

Init ==
    /\ pc = "construct"
    /\ summarizer = None
    /\ load_idx = 1
    /\ attempted = <<>>
    /\ RequestIdle
    /\ fn_in = <<>> /\ fn_arg = 0 /\ fn_out = <<>>

\* _initialize_summarizer: the next pipeline() call
Load(loaded) ==
    /\ pc = "construct"
    /\ LET nxt == InitializeStep(load_idx, loaded)
       IN /\ attempted' = Append(attempted, [model |-> ModelHierarchy[load_idx],
                                             loaded |-> loaded])
          /\ summarizer' = nxt.summarizer
          /\ load_idx' = nxt.load_idx
          /\ pc' = nxt.pc
    /\ UNCHANGED <<text, min_len, max_len, cleaned_text, chunks, chunk_idx,
                   chunk_summaries, calls, path, result, raised,
                   fn_in, fn_arg, fn_out>>

LoadSucceeds == Load(TRUE)
LoadFails == Load(FALSE)

\* the request ends: generate_summary returns
Finish(r, branch, t, mx) ==
    LET o == Outcome(r, t, mx)
    IN /\ result' = o.ret
       /\ raised' = o.ret.exc
       /\ calls' = calls \o o.log
       /\ path' = path \cup branch \cup o.net
       /\ pc' = "done"

\* generate_summary up to its first model inference call
GenerateSummary(t, mn, mx) ==
    /\ pc = "ready"
    /\ text' = t /\ min_len' = mn /\ max_len' = mx
    /\ LET cleaned == clean_text(t)
           route == Route(cleaned, summarizer)
       IN /\ cleaned_text' = cleaned
          /\ chunk_summaries' = <<>>
          /\ CASE route = "too_short" ->
                    /\ Finish(WithLog(Returned(TooShortMessage), <<>>), {route}, t, mx)
                    /\ chunks' = <<>> /\ chunk_idx' = 0
               [] route = "extractive" ->
                    /\ Finish(WithLog(summarize(cleaned, mx),
                                      <<ExtractiveCall(cleaned, mx)>>), {route}, t, mx)
                    /\ chunks' = <<>> /\ chunk_idx' = 0
               [] route = "chunked" ->
                    /\ chunks' = chunk_text(cleaned, DefaultChunkLength)
                    /\ chunk_idx' = 1
                    /\ pc' = "long"
                    /\ path' = {route}
                    /\ UNCHANGED <<calls, result, raised>>
               [] route = "direct" ->
                    /\ pc' = "direct"
                    /\ path' = {route}
                    /\ chunks' = <<>> /\ chunk_idx' = 0
                    /\ UNCHANGED <<calls, result, raised>>
    /\ UNCHANGED <<summarizer, load_idx, attempted, fn_in, fn_arg, fn_out>>

\* _handle_short_text: the one model call of the direct path
DirectCall(outcome) ==
    /\ pc = "direct"
    /\ Finish(_handle_short_text(cleaned_text, min_len, max_len, outcome), {},
              text, max_len)
    /\ UNCHANGED <<summarizer, load_idx, attempted, text, min_len, max_len,
                   cleaned_text, chunks, chunk_idx, chunk_summaries,
                   fn_in, fn_arg, fn_out>>

\* _handle_long_text: one iteration of the loop over the chunks
ChunkCall(outcome) ==
    /\ pc = "long"
    /\ chunk_idx <= Len(chunks)
    /\ LET it == ChunkIteration(chunks[chunk_idx], Len(chunks), min_len, max_len,
                                outcome)
       IN IF it.exc = None
          THEN /\ chunk_summaries' = chunk_summaries \o it.summaries
               /\ calls' = calls \o it.log
               /\ chunk_idx' = chunk_idx + 1
               /\ UNCHANGED <<pc, path, result, raised>>
          ELSE /\ Finish(WithLog(Raised(it.exc), it.log), {}, text, max_len)
               /\ UNCHANGED <<chunk_summaries, chunk_idx>>
    /\ UNCHANGED <<summarizer, load_idx, attempted, text, min_len, max_len,
                   cleaned_text, chunks, fn_in, fn_arg, fn_out>>

\* _handle_long_text after the loop: join, and decide on the further pass
Combine ==
    /\ pc = "long"
    /\ chunk_idx > Len(chunks)
    /\ IF NeedsFinalPass(chunk_summaries, max_len)
       THEN /\ pc' = "resummarize"
            /\ UNCHANGED <<calls, path, result, raised>>
       ELSE Finish(WithLog(Returned(Combined(chunk_summaries)), <<>>), {},
                   text, max_len)
    /\ UNCHANGED <<summarizer, load_idx, attempted, text, min_len, max_len,
                   cleaned_text, chunks, chunk_idx, chunk_summaries,
                   fn_in, fn_arg, fn_out>>

\* _handle_long_text: the further pass over the combined summary
FinalCall(outcome) ==
    /\ pc = "resummarize"
    /\ Finish(_summarize_with_pipeline(Combined(chunk_summaries), min_len, max_len,
                                       outcome), {"resummarized"},
              text, max_len)
    /\ UNCHANGED <<summarizer, load_idx, attempted, text, min_len, max_len,
                   cleaned_text, chunks, chunk_idx, chunk_summaries,
                   fn_in, fn_arg, fn_out>>

\* variant: the next request is served by an instance constructed anew
Return_reconstruct ==
    /\ pc = "done"
    /\ pc' = "construct"
    /\ summarizer' = None /\ load_idx' = 1 /\ attempted' = <<>>
    /\ text' = <<>> /\ min_len' = 0 /\ max_len' = 0 /\ cleaned_text' = <<>>
    /\ chunks' = <<>> /\ chunk_idx' = 0 /\ chunk_summaries' = <<>>
    /\ calls' = <<>> /\ path' = {} /\ result' = NoResult /\ raised' = None
    /\ UNCHANGED <<fn_in, fn_arg, fn_out>>

\* the caller has the return value; the instance is ready for the next request
Return ==
    /\ pc = "done"
    /\ pc' = "ready"
    /\ text' = <<>> /\ min_len' = 0 /\ max_len' = 0 /\ cleaned_text' = <<>>
    /\ chunks' = <<>> /\ chunk_idx' = 0 /\ chunk_summaries' = <<>>
    /\ calls' = <<>> /\ path' = {} /\ result' = NoResult /\ raised' = None
    /\ UNCHANGED <<summarizer, load_idx, attempted, fn_in, fn_arg, fn_out>>

-----------------------------------------------------------------------------
(* TextProcessor.chunk_text on its own: every short text over a letter, the
   full stop and the space, with every small chunk length *)

MaxTextLen == 7
MaxChunkLength == 2

SmallTexts == UNION {[1..n -> {"a", ".", " "}] : n \in 0..MaxTextLen}
ChunkLengths == -1..MaxChunkLength

InitChunk ==
    /\ pc = "chunk_call"
    /\ summarizer = None /\ load_idx = 1 /\ attempted = <<>>
    /\ RequestIdle
    /\ fn_in \in SmallTexts
    /\ fn_arg \in ChunkLengths
    /\ fn_out = <<>>

ApplyChunkText ==
    /\ pc = "chunk_call"
    /\ fn_out' = chunk_text(fn_in, fn_arg)
    /\ pc' = "chunk_done"
    /\ UNCHANGED <<summarizer, load_idx, attempted, text, min_len, max_len,
                   cleaned_text, chunks, chunk_idx, chunk_summaries, calls, path,
                   result, raised, fn_in, fn_arg>>

SpecChunk == InitChunk /\ [][ApplyChunkText]_vars

-----------------------------------------------------------------------------
(* ExtractiveSummarizer.summarize on its own: texts of up to MaxFragments
   fragments separated by '. ', every fragment kept or dropped by the length
   filter in its own way, with target lengths around the fragments' sizes *)

MaxFragments == 5

Letters == <<"a", "b", "c", "d", "e", "f", "g", "h">>

\* n words of one letter each
Words(letter, n) == [i \in 1..(2 * n - 1) |-> IF i % 2 = 1 THEN letter ELSE " "]

\* one word of n letters
LongWord(letter, n) == [i \in 1..n |-> letter]

FragmentKinds == {"w12", "w1", "c20", "pad"}

\* the fragment of a kind at position i of the text:
\*   w12  12 words, 23 characters       w1   one word of 21 characters
\*   c20  one word of 20 characters     pad  11 words, 21 characters, in spaces
Fragment(kind, i) ==
    LET l == Letters[i]
    IN CASE kind = "w12" -> Words(l, 12)
         [] kind = "w1" -> LongWord(l, 21)
         [] kind = "c20" -> LongWord(l, 20)
         [] kind = "pad" -> <<" ">> \o Words(l, 11) \o <<" ", " ">>

FragmentRecipes == UNION {[1..n -> FragmentKinds] : n \in 0..MaxFragments}

ExtractTextOf(recipe, ending) ==
    Join([i \in 1..Len(recipe) |-> Fragment(recipe[i], i)], DotSpace) \o ending

ExtractTexts ==
    {ExtractTextOf(r, e) : r \in FragmentRecipes, e \in {<<>>, <<".">>}}

TargetLengths == {-1, 0, 1, 12, 13, 24, 36, 50}

InitExtract ==
    /\ pc = "extract_call"
    /\ summarizer = None /\ load_idx = 1 /\ attempted = <<>>
    /\ RequestIdle
    /\ fn_in \in ExtractTexts
    /\ fn_arg \in TargetLengths
    /\ fn_out = <<>>

ApplySummarize ==
    /\ pc = "extract_call"
    /\ fn_out' = summarize(fn_in, fn_arg)
    /\ pc' = "extract_done"
    /\ UNCHANGED <<summarizer, load_idx, attempted, text, min_len, max_len,
                   cleaned_text, chunks, chunk_idx, chunk_summaries, calls, path,
                   result, raised, fn_in, fn_arg>>

SpecExtract == InitExtract /\ [][ApplySummarize]_vars

-----------------------------------------------------------------------------
(* ExtractiveSummarizer.summarize on texts of many sentences: up to MaxSelect
   sentences of one word each, the word of sentence i having 20 + i letters,
   so that every sentence passes the length filter, the average is one word
   and a sentence is known by its length *)

MaxSelect == 9

SelectTextOf(n) == Join([i \in 1..n |-> LongWord("a", 20 + i)], DotSpace)

SelectTexts == {SelectTextOf(n) : n \in 1..MaxSelect}

SelectTargets == 0..(MaxSelect + 1)

InitSelect ==
    /\ pc = "extract_call"
    /\ summarizer = None /\ load_idx = 1 /\ attempted = <<>>
    /\ RequestIdle
    /\ fn_in \in SelectTexts
    /\ fn_arg \in SelectTargets
    /\ fn_out = <<>>

SpecSelect == InitSelect /\ [][ApplySummarize]_vars

-----------------------------------------------------------------------------
(* SummaryStats.get_stats on its own, on every short text over a letter, the
   full stop and the space *)

InitStats ==
    /\ pc = "stats_call"
    /\ summarizer = None /\ load_idx = 1 /\ attempted = <<>>
    /\ RequestIdle
    /\ fn_in \in SmallTexts
    /\ fn_arg = 0
    /\ fn_out = <<>>

ApplyGetStats ==
    /\ pc = "stats_call"
    /\ fn_out' = get_stats(fn_in)
    /\ pc' = "stats_done"
    /\ UNCHANGED <<summarizer, load_idx, attempted, text, min_len, max_len,
                   cleaned_text, chunks, chunk_idx, chunk_summaries, calls, path,
                   result, raised, fn_in, fn_arg>>

SpecStats == InitStats /\ [][ApplyGetStats]_vars

-----------------------------------------------------------------------------
(* TextProcessor.clean_text on its own, and on its own output: texts of up to
   MaxCleanFragments fragments separated by '.', with fragments at the limit
   of the length filter, runs of whitespace, characters the second
   substitution removes and the punctuation it keeps *)

MaxCleanFragments == 3

CleanFragmentKinds == {"w11", "w10", "ws", "hash", "punct", "blank"}

\* the fragment of a kind at position i of the text:
\*   w11    one word of 11 characters    w10    one word of 10 characters
\*   ws     words of 5 and 6 characters with runs of whitespace around them
\*   hash   words of 4 and 5 characters with ' # ' between them
\*   punct  letters with the kept punctuation and two removed characters
\*   blank  two spaces
CleanFragment(kind, i) ==
    LET l == Letters[i]
    IN CASE kind = "w11" -> LongWord(l, 11)
         [] kind = "w10" -> LongWord(l, 10)
         [] kind = "ws" -> <<"\n">> \o LongWord(l, 5) \o <<" ", "\n", " ">>
                             \o LongWord(l, 6) \o <<" ">>
         [] kind = "hash" -> LongWord(l, 4) \o <<" ", "#", " ">> \o LongWord(l, 5)
         [] kind = "punct" -> <<l, ",", l, "!", l, "?", l, ";", "@", l, ":", l,
                                "-", "(", l>>
         [] kind = "blank" -> <<" ", " ">>

CleanRecipes == UNION {[1..n -> CleanFragmentKinds] : n \in 0..MaxCleanFragments}

CleanTextOf(recipe, ending) ==
    Join([i \in 1..Len(recipe) |-> CleanFragment(recipe[i], i)], <<".">>) \o ending

CleanTexts == {CleanTextOf(r, e) : r \in CleanRecipes, e \in {<<>>, <<".">>}}

InitClean ==
    /\ pc = "clean_call"
    /\ summarizer = None /\ load_idx = 1 /\ attempted = <<>>
    /\ RequestIdle
    /\ fn_in \in CleanTexts
    /\ fn_arg = 0
    /\ fn_out = <<>>

ApplyCleanText ==
    /\ pc = "clean_call"
    /\ fn_out' = clean_text(fn_in)
    /\ pc' = "clean_done"
    /\ UNCHANGED <<summarizer, load_idx, attempted, text, min_len, max_len,
                   cleaned_text, chunks, chunk_idx, chunk_summaries, calls, path,
                   result, raised, fn_in, fn_arg>>

\* clean_text on what clean_text returned
ApplyCleanAgain ==
    /\ pc = "clean_done"
    /\ fn_in' = fn_out
    /\ fn_out' = clean_text(fn_out)
    /\ pc' = "clean_again"
    /\ UNCHANGED <<summarizer, load_idx, attempted, text, min_len, max_len,
                   cleaned_text, chunks, chunk_idx, chunk_summaries, calls, path,
                   result, raised, fn_arg>>

NextClean == ApplyCleanText \/ ApplyCleanAgain

SpecClean == InitClean /\ [][NextClean]_vars

-----------------------------------------------------------------------------
(* Requests on long documents, made of an instance whose construction is
   over, with a model or without one: texts of 1500 words cut into sentences
   in several ways, texts whose last chunk has 50 and 51 words, and a text of
   six sentences of 501 words *)

LongRecipes ==
    {<<1000, 500>>, <<500, 500, 500>>, <<300, 400, 500, 300>>, <<1500>>,
     <<6, 1000, 494>>, <<1000, 50>>, <<1000, 51>>, <<6, 1000, 6>>}

LongPairs == {<<100, 200>>, <<30, 30>>, <<300, 300>>, <<24, 24>>}

SixChunkRecipe == <<501, 501, 501, 501, 501, 501>>

\* text, min_len, max_len
LongRequests ==
    {<<TextOf(r), lp[1], lp[2]>> : r \in LongRecipes, lp \in LongPairs}
    \cup {<<TextOf(SixChunkRecipe), 100, 100>>}

\* the attempts of a construction in which every load failed
AllLoadsFailed == [i \in 1..Len(ModelHierarchy) |->
                     [model |-> ModelHierarchy[i], loaded |-> FALSE]]

InitLong ==
    /\ pc = "ready"
    /\ \/ /\ summarizer = ModelHierarchy[1]
          /\ load_idx = 1
          /\ attempted = <<[model |-> ModelHierarchy[1], loaded |-> TRUE]>>
       \/ /\ summarizer = None
          /\ load_idx = Len(ModelHierarchy)
          /\ attempted = AllLoadsFailed
    /\ RequestIdle
    /\ fn_in = <<>> /\ fn_arg = 0 /\ fn_out = <<>>

NextLong ==
    \/ \E r \in LongRequests : GenerateSummary(r[1], r[2], r[3])
    \/ \E o \in Outcomes : ChunkCall(o)
    \/ Combine
    \/ \E o \in Outcomes : FinalCall(o)
    \/ Return

SpecLong == InitLong /\ [][NextLong]_vars

-----------------------------------------------------------------------------
(* Requests of every route, made of an instance whose construction is over,
   with a model or without one: the long documents above, and documents of
   45 to 1000 words whose sentences have 10 or 12 words (19 or 23
   characters) or are long *)

ShortRecipes ==
    {<<45>>, <<50>>, <<500, 500>>,
     <<10, 10, 10, 10, 10>>, <<10, 10, 10, 10, 12>>, <<12, 12, 12, 12, 12>>}

ShortPairs == {<<30, 50>>, <<30, 300>>}

\* text, min_len, max_len
AllRequests ==
    LongRequests \cup {<<TextOf(r), lp[1], lp[2]>> : r \in ShortRecipes, lp \in ShortPairs}

\* the steps of a request after its first
RequestStep ==
    \/ \E o \in Outcomes : DirectCall(o)
    \/ \E o \in Outcomes : ChunkCall(o)
    \/ Combine
    \/ \E o \in Outcomes : FinalCall(o)

NextRequests ==
    \/ \E r \in AllRequests : GenerateSummary(r[1], r[2], r[3])
    \/ RequestStep
    \/ Return

SpecRequests == InitLong /\ [][NextRequests]_vars

-----------------------------------------------------------------------------
Next ==
    \/ LoadSucceeds
    \/ LoadFails
    \/ \E t \in Texts, lp \in LengthPairs : GenerateSummary(t, lp[1], lp[2])
    \/ \E o \in Outcomes : DirectCall(o)
    \/ \E o \in Outcomes : ChunkCall(o)
    \/ Combine
    \/ \E o \in Outcomes : FinalCall(o)
    \/ Return

Spec == Init /\ [][Next]_vars

-----------------------------------------------------------------------------
(* Properties *)

ModelCalls == SelectSeq(calls, LAMBDA c : c.fn = "model")
ExtractiveCalls == SelectSeq(calls, LAMBDA c : c.fn = "extractive")

\* the value part of a return value
Value(r) == [exc |-> r.exc, type |-> r.type, val |-> r.val]

\* the texts an inference call can return
ModelTexts == {o.summary[1].summary_text : o \in {x \in Outcomes : x.kind = "text"}}

\* the chunks the loop of _handle_long_text has passed that have more than 50 words
PassedChunks ==
    SelectSeq(SubSeq(chunks, 1, chunk_idx - 1), LAMBDA c : WordCount(c) > 50)

PerChunkMax == Min(130, max_len \div Len(chunks))
PerChunkMin == Max(20, min_len \div Len(chunks))

\* C1: generate_summary (the method and the module-level function) returns a
\* string and lets no exception out, whatever the text, whichever descriptors
\* failed to load and whatever each inference call did.
Thm_C1 ==
    pc = "done" =>
        /\ raised = None
        /\ result.exc = None /\ result.type = "str"
        /\ module_generate_summary.exc = None
        /\ module_generate_summary.type = "str"

\* a request of the chunked path in which an inference call raised has returned
Wit_C1 ==
    /\ pc = "done"
    /\ "resummarized" \in path
    /\ \E i \in 1..Len(calls) : calls[i].fn = "model" /\ calls[i].outcome = "raise"

\* C2: a cleaned text of fewer than 50 words gives exactly the too-short
\* message with no inference call and no extractive call, model or no model; a
\* cleaned text of exactly 50 words is not too short.
Thm_C2 ==
    pc = "done" =>
        LET n == WordCount(cleaned_text)
        IN /\ n < 50 => result = Returned(TooShortMessage) /\ calls = <<>>
           /\ n = 50 => result.val # TooShortMessage /\ calls # <<>>

\* a model is active, the raw text has 50 words and the cleaned text fewer
Wit_C2 ==
    /\ pc = "done"
    /\ summarizer # None
    /\ WordCount(text) >= 50
    /\ WordCount(clean_text(text)) < 50
    /\ result.val = TooShortMessage

\* C3 as stated: with no model active every request goes through
\* ExtractiveSummarizer.summarize, makes no inference call and does not raise.
Cex_C3 ==
    pc = "done" /\ summarizer = None =>
        /\ ExtractiveCalls # <<>>
        /\ ModelCalls = <<>>
        /\ raised = None

\* C3 amended: with no model active, a request whose cleaned text has at least
\* 50 words is answered by one call of ExtractiveSummarizer.summarize on the
\* cleaned text with max_len, with no inference call and no exception; a
\* shorter one gets the too-short message and no call at all.
Thm_C3 ==
    pc = "done" /\ summarizer = None =>
        LET cleaned == cleaned_text
        IN IF WordCount(cleaned) >= 50
           THEN /\ calls = <<ExtractiveCall(cleaned, max_len)>>
                /\ result = Value(summarize(cleaned, max_len))
                /\ result.exc = None /\ raised = None
           ELSE /\ calls = <<>>
                /\ result = Returned(TooShortMessage)

\* no model loaded and a text of more than 1000 words answered extractively
Wit_C3 ==
    /\ pc = "done"
    /\ summarizer = None
    /\ attempted # <<>>
    /\ WordCount(clean_text(text)) > 1000
    /\ Len(ExtractiveCalls) = 1
    /\ result.val # UnableMessage

\* C4: an inference call that raises sends that unit alone to the extractive
\* summarizer with the unit's maximum: the chunk's summary is the extractive
\* summary of the chunk with the per-chunk maximum, every chunk of more than 50
\* words is still given to the model and has its summary, and in the direct
\* path the result is the extractive summary of the cleaned text with max_len.
Thm_C4 ==
    /\ \A i \in 1..Len(calls) :
          (calls[i].fn = "model" /\ calls[i].outcome = "raise") =>
              /\ i < Len(calls)
              /\ calls[i + 1] = ExtractiveCall(calls[i].text, calls[i].max_length)
    /\ "chunked" \in path =>
          LET passed == PassedChunks
              model_calls == ModelCalls
          IN /\ Len(chunk_summaries) = Len(passed)
             /\ Len(model_calls) >= Len(passed)
             /\ \A k \in 1..Len(passed) :
                   /\ model_calls[k].text = passed[k]
                   /\ model_calls[k].outcome = "raise" =>
                         chunk_summaries[k] = summarize(passed[k], PerChunkMax).val
             /\ pc = "done" => chunk_idx = Len(chunks) + 1
    /\ (pc = "done" /\ "direct" \in path /\ calls[1].outcome = "raise") =>
          result = Value(summarize(cleaned_text, max_len))

\* the first chunk's call raised, the second chunk's call returned a text
Wit_C4 ==
    /\ "chunked" \in path
    /\ Len(PassedChunks) = 2
    /\ ModelCalls[1].outcome = "raise"
    /\ ModelCalls[2].outcome = "text"
    /\ chunk_summaries[2] \in ModelTexts

\* C5: the constructor tries the descriptors in hierarchy order, stops at the
\* first that loads and makes it the active model; when all four fail the
\* active model is None and construction is over.
Thm_C5 ==
    /\ Len(attempted) <= Len(ModelHierarchy)
    /\ \A i \in 1..Len(attempted) :
          /\ attempted[i].model = ModelHierarchy[i]
          /\ i < Len(attempted) => ~attempted[i].loaded
    /\ (attempted # <<>> /\ attempted[Len(attempted)].loaded) =>
          /\ pc # "construct"
          /\ summarizer = attempted[Len(attempted)].model
    /\ (attempted = <<>> \/ ~attempted[Len(attempted)].loaded) =>
          /\ summarizer = None
          /\ pc # "construct" <=> Len(attempted) = Len(ModelHierarchy)

\* the third descriptor loaded after two failures, the fourth was not tried
Wit_C5 ==
    /\ pc = "ready"
    /\ summarizer = "DistilBART"
    /\ Len(attempted) = 3

\* C6: with a model active and at least 50 cleaned words, the request is
\* chunked exactly when the cleaned text has more than 1000 words, and the
\* chunk loop then starts on chunk_text of the cleaned text with the default
\* chunk length; otherwise it makes one inference call, on the whole cleaned
\* text with the caller's min_len and max_len.
Thm_C6 ==
    (pc \in {"direct", "long", "resummarize", "done"} /\ summarizer # None) =>
        LET cleaned == clean_text(text)
            words == WordCount(cleaned)
            model_calls == ModelCalls
        IN /\ cleaned_text = cleaned
           /\ words >= 50 => ("chunked" \in path <=> words > 1000)
           /\ words >= 50 => ("direct" \in path <=> words <= 1000)
           /\ (words >= 50 /\ pc = "long" /\ chunk_idx = 1) =>
                 chunks = chunk_text(cleaned, 1000)
           /\ (words >= 50 /\ pc = "done" /\ "direct" \in path) =>
                 /\ Len(model_calls) = 1
                 /\ model_calls[1].text = cleaned
                 /\ model_calls[1].min_length = min_len
                 /\ model_calls[1].max_length = max_len

\* a cleaned text of exactly 1000 words was summarized by one direct call
Wit_C6 ==
    /\ pc = "done"
    /\ "direct" \in path
    /\ WordCount(clean_text(text)) = 1000
    /\ Len(ModelCalls) = 1

\* a chunk without the full stop chunk_text ends it with, split on '. '
SentencesOf(chunk) == SplitDotSpace(SubSeq(chunk, 1, Len(chunk) - 1))

RECURSIVE Flatten(_)
Flatten(seqs) == IF seqs = <<>> THEN <<>> ELSE Head(seqs) \o Flatten(Tail(seqs))

\* C7: the sentences of the chunks of chunk_text, chunk after chunk, are the
\* sentences of text.split('. ') in their order: none dropped, doubled, moved
\* or cut, the last partial chunk included.  A chunk's sentences are read
\* without the full stop chunk_text appends to the chunk.
Thm_C7 ==
    pc = "chunk_done" =>
        /\ \A i \in 1..Len(fn_out) : fn_out[i][Len(fn_out[i])] = "."
        /\ Flatten(MapSeq(fn_out, SentencesOf)) = SplitDotSpace(fn_in)

\* three sentences came back as a chunk of two and a chunk of one
Wit_C7 ==
    /\ pc = "chunk_done"
    /\ Len(SplitDotSpace(fn_in)) = 3
    /\ Len(fn_out) = 2
    /\ Len(SentencesOf(fn_out[1])) = 2

\* C8: a chunk of chunk_text has at most max_chunk_length whitespace-separated
\* words unless it is one sentence that alone has more (checked for chunk
\* lengths of at least one word).
Cex_C8 ==
    (pc = "chunk_done" /\ fn_arg >= 1) =>
        \A i \in 1..Len(fn_out) :
            \/ WordCount(fn_out[i]) <= fn_arg
            \/ /\ Len(SentencesOf(fn_out[i])) = 1
               /\ WordCount(SentencesOf(fn_out[i])[1]) > fn_arg

\* C9: in the chunked path a further pass over the joined chunk summaries is
\* made exactly when the joined text has more than max_len words; it is one
\* inference call with the caller's min_len and max_len, and what it gives is
\* the result, whatever its length.
Thm_C9 ==
    /\ pc = "resummarize" => WordCount(Combined(chunk_summaries)) > max_len
    /\ (pc = "done" /\ "chunked" \in path) =>
          LET combined == Combined(chunk_summaries)
              n == Len(chunk_summaries)
              model_calls == ModelCalls
              m == Len(model_calls)
          IN IF WordCount(combined) > max_len
             THEN /\ "resummarized" \in path
                  /\ m = n + 1
                  /\ model_calls[m].text = combined
                  /\ model_calls[m].min_length = min_len
                  /\ model_calls[m].max_length = max_len
                  /\ calls[Len(calls)].fn = "model" => result.val \in ModelTexts
                  /\ calls[Len(calls)].fn = "extractive" =>
                        result = Value(summarize(combined, max_len))
             ELSE /\ "resummarized" \notin path
                  /\ m = n
                  /\ result = Returned(combined)

\* the further pass returned a text of more than max_len words, which is the result
Wit_C9 ==
    /\ pc = "done"
    /\ "resummarized" \in path
    /\ calls[Len(calls)].fn = "model"
    /\ WordCount(result.val) > max_len

\* C10: every per-chunk inference call gets max_length = min(130, max_len //
\* chunk_count) and min_length = max(20, min_len // chunk_count), chunk_count
\* being the number of chunks chunk_text returned, skipped chunks included.
Thm_C10 ==
    pc \in {"long", "resummarize"} =>
        \A i \in 1..Len(calls) :
            calls[i].fn = "model" =>
                /\ calls[i].max_length = PerChunkMax
                /\ calls[i].min_length = PerChunkMin

\* two chunks, one of them skipped, and the call for the other got max_len // 2
Wit_C10 ==
    /\ pc = "long"
    /\ Len(chunks) = 2
    /\ chunk_idx = 3
    /\ Len(ModelCalls) = 1
    /\ ModelCalls[1].max_length = max_len \div 2
    /\ ModelCalls[1].max_length < 130

\* the pieces of t between the '. ' separators that are longer than 20
\* characters once trimmed, trimmed and ended with a full stop
LongPieces(t) ==
    LET pieces == SplitDotSpace(t)
        long == {i \in 1..Len(pieces) : Len(Strip(pieces[i])) > 20}
        at == SortedSeq(long)
    IN [j \in 1..Len(at) |-> Strip(pieces[at[j]]) \o <<".">>]

\* C11: summarize returns the unable-to-summarize message when no sentence
\* is longer than 20 characters, and when the surviving sentences are no more
\* than the target sentence count it returns all of them, as they are and in
\* their order, with one space between them.
Thm_C11 ==
    pc = "extract_done" =>
        LET sentences == LongPieces(fn_in)
        IN /\ sentences = <<>> => fn_out = Returned(UnableMessage)
           /\ (sentences # <<>>
                 /\ Len(sentences) <= TargetSentences(sentences, fn_arg)) =>
                 fn_out = Returned(Join(sentences, <<" ">>))

\* three sentences survive, one fragment was dropped, and all three are returned
Wit_C11 ==
    /\ pc = "extract_done"
    /\ Len(SplitDotSpace(fn_in)) = 4
    /\ Len(LongPieces(fn_in)) = 3
    /\ TargetSentences(LongPieces(fn_in), fn_arg) = 3
    /\ fn_out = Returned(Join(LongPieces(fn_in), <<" ">>))

\* C12: summarize returns a value and raises nothing for every text and every
\* target length, zero and negative ones included: whenever a sentence
\* survives, the integer part of the average sentence length is at least 1.
Thm_C12 ==
    pc = "extract_done" =>
        /\ fn_out.exc = None
        /\ fn_out.type = "str"
        /\ calls = <<>>
        /\ LongPieces(fn_in) # <<>> =>
              SumWords(LongPieces(fn_in), 1) \div Len(LongPieces(fn_in)) >= 1

\* target length 0, sentences of one word each: the divisor is 1
Wit_C12 ==
    /\ pc = "extract_done"
    /\ fn_arg = 0
    /\ Len(LongPieces(fn_in)) >= 2
    /\ SumWords(LongPieces(fn_in), 1) = Len(LongPieces(fn_in))
    /\ fn_out.exc = None
    /\ fn_out.val # UnableMessage

\* the positions where a whitespace-separated token of s ends
TokenEnds(s) ==
    {i \in 1..Len(s) : ~IsSpace(s[i]) /\ (i = Len(s) \/ IsSpace(s[i + 1]))}

\* the positions of the first character that is neither whitespace nor a
\* full stop in each stretch of s between full stops
FragmentStarts(s) ==
    {i \in 1..Len(s) :
        /\ ~IsSpace(s[i]) /\ s[i] # "."
        /\ \A j \in 1..(i - 1) :
              (~IsSpace(s[j]) /\ s[j] # ".") => \E k \in j..i : s[k] = "."}

\* C13: get_stats returns, for every string, words = the number of
\* whitespace-separated tokens, characters = the length of the string and
\* sentences = the number of stretches between full stops that hold
\* something other than whitespace; for the empty string all three are 0.
Thm_C13 ==
    pc = "stats_done" =>
        /\ DOMAIN fn_out = {"words", "characters", "sentences"}
        /\ fn_out.words = Cardinality(TokenEnds(fn_in))
        /\ fn_out.characters = Len(fn_in)
        /\ fn_out.sentences = Cardinality(FragmentStarts(fn_in))
        /\ fn_in = <<>> => fn_out = [words |-> 0, characters |-> 0, sentences |-> 0]

\* 'a. .a a': three fragments, the middle one blank, two sentences, three words
Wit_C13 ==
    /\ pc = "stats_done"
    /\ fn_in = <<"a", ".", " ", ".", "a", " ", "a">>
    /\ fn_out = [words |-> 3, characters |-> 7, sentences |-> 2]

\* every inference call of the request raised (none was made if no model is active)
ModelLayerFailed ==
    \A i \in 1..Len(calls) : calls[i].fn = "model" => calls[i].outcome = "raise"

\* what the extractive summarizer alone makes of a cleaned text of at least
\* 50 words: of the whole text when no model is active or the text has at
\* most 1000 words, else of each chunk of more than 50 words and then, if
\* their summaries have more than mx words together, of the joined summaries
ExtractiveOnly(cleaned, mx, mgr) ==
    IF mgr = None \/ WordCount(cleaned) <= 1000
    THEN summarize(cleaned, mx).val
    ELSE LET cs == chunk_text(cleaned, 1000)
             per_chunk == Min(130, mx \div Len(cs))
             big == SelectSeq(cs, LAMBDA c : WordCount(c) > 50)
             joined == Join([k \in 1..Len(big) |-> summarize(big[k], per_chunk).val],
                            <<" ">>)
         IN IF WordCount(joined) > mx THEN summarize(joined, mx).val ELSE joined

\* C14 as stated: when the model layer fails on every call, the result is a
\* function of (text, min_len, max_len) and comes from the extractive
\* summarizer alone.
Cex_C14 ==
    (pc = "done" /\ ModelLayerFailed) =>
        /\ ExtractiveCalls # <<>>
        /\ result = Returned(ExtractiveOnly(clean_text(text), max_len, summarizer))

\* C14 amended: when the model layer fails on every call, the result is a
\* function of the text, max_len and whether a model is active, whichever
\* exceptions were raised: the too-short message for a cleaned text of fewer
\* than 50 words, and otherwise a string the extractive summarizer alone made.
Thm_C14 ==
    (pc = "done" /\ ModelLayerFailed) =>
        LET cleaned == clean_text(text)
        IN IF WordCount(cleaned) < 50
           THEN result = Returned(TooShortMessage) /\ ExtractiveCalls = <<>>
           ELSE /\ result = Returned(ExtractiveOnly(cleaned, max_len, summarizer))
                /\ Len(ExtractiveCalls) = Max(1, Len(ModelCalls))

\* a model is active, both chunk calls and the further pass raised
Wit_C14 ==
    /\ pc = "done"
    /\ summarizer # None
    /\ ModelLayerFailed
    /\ "resummarized" \in path
    /\ Len(ModelCalls) = 3
    /\ Len(ExtractiveCalls) = 3

\* a request with min_len = 100 and max_len = 200 on a cleaned text of 1500
\* words has reached the chunked path with a model active
Scenario1500 ==
    /\ pc \in {"long", "resummarize", "done"}
    /\ summarizer # None
    /\ min_len = 100 /\ max_len = 200
    /\ WordCount(clean_text(text)) = 1500

\* two chunks of at most 1000 words, per-chunk calls with (50, 100), and a
\* further pass exactly when the joined summaries have more than 200 words
TwoChunkOutcome ==
    LET model_calls == ModelCalls
        combined == Combined(chunk_summaries)
    IN /\ Len(chunks) = 2
       /\ \A i \in 1..Len(chunks) : WordCount(chunks[i]) <= 1000
       /\ \A i \in 1..Len(model_calls) :
             IF i <= 2
             THEN /\ model_calls[i].text = chunks[i]
                  /\ model_calls[i].min_length = 50
                  /\ model_calls[i].max_length = 100
             ELSE /\ i = 3
                  /\ model_calls[i].text = combined
                  /\ WordCount(combined) > 200
       /\ pc = "resummarize" => WordCount(combined) > 200
       /\ pc = "done" =>
             /\ "resummarized" \in path <=> WordCount(combined) > 200
             /\ Len(model_calls) = IF WordCount(combined) > 200 THEN 3 ELSE 2

\* C15 as stated: every cleaned input of 1500 words with min_len = 100 and
\* max_len = 200 gives exactly two chunks under the 1000-word cap, per-chunk
\* calls with min_length 50 and max_length 100, and a further pass only if
\* the joined chunk summaries exceed 200 words.
Cex_C15 == Scenario1500 => TwoChunkOutcome

\* C15 amended: the same for a cleaned input of 1500 words none of whose
\* sentences has more than 500 words.
Thm_C15 ==
    (Scenario1500
       /\ \A s \in {SplitDotSpace(clean_text(text))[i] :
                       i \in 1..Len(SplitDotSpace(clean_text(text)))} :
              WordCount(s) <= 500) =>
        TwoChunkOutcome

\* three sentences of 500 words: chunks of 1000 and 500 words, two summaries
\* of 150 words each, and the further pass made
Wit_C15 ==
    /\ Scenario1500
    /\ pc = "done"
    /\ Len(SplitDotSpace(cleaned_text)) = 3
    /\ WordCount(chunks[1]) = 1000 /\ WordCount(chunks[2]) = 500
    /\ WordCount(Combined(chunk_summaries)) = 300
    /\ "resummarized" \in path
    /\ Len(ModelCalls) = 3

\* the 0-based positions C16 names, in its order, for n sentences and target
\* sentence count t
SelectedPositions(n, t) ==
    LET from == n \div 3
        upto == Min(n, n \div 3 + t - 2)
        run == IF t > 2 /\ upto > from
               THEN [j \in 1..(upto - from) |-> from + j - 1]
               ELSE <<>>
        head == <<0>> \o run
    IN IF Len(head) < t /\ n > 1 THEN Append(head, n - 1) ELSE head

\* C16: when more sentences survive than the target sentence count t, the
\* result is sentence 0, then, if t > 2, the sentences from position n // 3 up
\* to but not including min(n, n // 3 + t - 2), then the last sentence if
\* fewer than t are selected and n > 1, joined by spaces; five sentences of
\* 12 words with target 50 give sentences 0, 1, 2 and 4.
Thm_C16 ==
    pc = "extract_done" =>
        LET sentences == LongPieces(fn_in)
            n == Len(sentences)
            t == IF n = 0 THEN 0 ELSE TargetSentences(sentences, fn_arg)
            at == SelectedPositions(n, t)
        IN /\ n > t =>
                fn_out = Returned(Join([j \in 1..Len(at) |-> sentences[at[j] + 1]],
                                       <<" ">>))
           /\ (n = 5 /\ fn_arg = 50 /\ SumWords(sentences, 1) = 60) =>
                /\ t = 4
                /\ fn_out = Returned(Join(<<sentences[1], sentences[2],
                                            sentences[3], sentences[5]>>, <<" ">>))

\* five sentences of 12 words, target 50: first, the middle run of two, last
Wit_C16 ==
    /\ pc = "extract_done"
    /\ fn_arg = 50
    /\ Len(LongPieces(fn_in)) = 5
    /\ \A i \in 1..5 : WordCount(LongPieces(fn_in)[i]) = 12
    /\ WordCount(fn_out.val) = 48

\* int(a / b) for b > 0: the quotient with its fraction dropped
Truncated(a, b) == IF a >= 0 THEN a \div b ELSE 0 - ((0 - a) \div b)

\* what summarize returns for its surviving sentences if its target sentence
\* count is t
SummaryFor(sentences, t) ==
    LET n == Len(sentences)
        at == SelectedPositions(n, t)
    IN IF n <= t THEN Returned(Join(sentences, <<" ">>))
       ELSE Returned(Join([j \in 1..Len(at) |-> sentences[at[j] + 1]], <<" ">>))

\* C17 as stated: the target sentence count is max(1, min(n, target_length /
\* average)) with the exact average total / n, the quotient being truncated
\* only after the division.
Cex_C17 ==
    (pc = "extract_done" /\ LongPieces(fn_in) # <<>>) =>
        LET sentences == LongPieces(fn_in)
            n == Len(sentences)
            total == SumWords(sentences, 1)
        IN fn_out = SummaryFor(sentences,
                               Max(1, Min(n, Truncated(fn_arg * n, total))))

\* C17 amended: the target sentence count is max(1, min(n, target_length //
\* int(average))): the average total / n is truncated to an integer first and
\* the target length is floor-divided by that integer.
Thm_C17 ==
    (pc = "extract_done" /\ LongPieces(fn_in) # <<>>) =>
        LET sentences == LongPieces(fn_in)
            n == Len(sentences)
            total == SumWords(sentences, 1)
        IN fn_out = SummaryFor(sentences,
                               Max(1, Min(n, fn_arg \div (total \div n))))

\* sentences of 1 and 12 words, target 12: 12 // int(6.5) = 2 sentences are
\* returned where int(12 / 6.5) = 1
Wit_C17 ==
    /\ pc = "extract_done"
    /\ fn_arg = 12
    /\ Len(LongPieces(fn_in)) = 2
    /\ SumWords(LongPieces(fn_in), 1) = 13
    /\ WordCount(fn_out.val) = 13

\* one iteration of the chunk loop: a chunk of more than 50 words adds one
\* summary, its own, at the end of the list, and any other chunk adds none
ChunkLoopStep ==
    (pc = "long" /\ chunk_idx <= Len(chunks) /\ chunk_idx' = chunk_idx + 1) =>
        LET chunk == chunks[chunk_idx]
            n == Len(chunk_summaries)
        IN IF WordCount(chunk) > 50
           THEN /\ Len(chunk_summaries') = n + 1
                /\ SubSeq(chunk_summaries', 1, n) = chunk_summaries
                /\ chunk_summaries'[n + 1] \in
                      ModelTexts \cup {summarize(chunk, PerChunkMax).val}
                /\ Len(calls') > Len(calls)
                /\ calls'[Len(calls) + 1].text = chunk
           ELSE /\ chunk_summaries' = chunk_summaries
                /\ calls' = calls

\* nothing else touches the list while the request is in the chunked path
SummariesKept ==
    (pc \in {"long", "resummarize"} /\ chunk_idx' = chunk_idx) =>
        chunk_summaries' = chunk_summaries

\* after the loop one summary per chunk of more than 50 words, and the text
\* returned or given to the further pass is the list joined by single spaces
JoinedInOrder ==
    (pc \in {"resummarize", "done"} /\ "chunked" \in path) =>
        LET big == SelectSeq(chunks, LAMBDA c : WordCount(c) > 50)
            joined == Join(chunk_summaries, <<" ">>)
        IN /\ Len(chunk_summaries) = Len(big)
           /\ (pc = "done" /\ "resummarized" \notin path) =>
                 result = Returned(joined)
           /\ (pc = "done" /\ "resummarized" \in path) =>
                 ModelCalls[Len(ModelCalls)].text = joined

\* C18: in the chunked path only the chunks of more than 50 words are
\* summarized, a chunk of 50 words or fewer adds nothing, and the combined
\* summary is the summaries of the summarized chunks in chunk order with one
\* space between them.
Thm_C18 ==
    /\ [][ChunkLoopStep /\ SummariesKept]_vars
    /\ []JoinedInOrder

\* three chunks, the first of 6 words skipped, summaries of 12 and 150 words
\* for the other two, returned joined
Wit_C18 ==
    /\ pc = "done"
    /\ Len(chunks) = 3
    /\ WordCount(chunks[1]) = 6
    /\ Len(chunk_summaries) = 2
    /\ WordCount(chunk_summaries[1]) = 12
    /\ WordCount(chunk_summaries[2]) = 150
    /\ result = Returned(chunk_summaries[1] \o <<" ">> \o chunk_summaries[2])

\* a request on a cleaned text of more than 1000 words has ended on an
\* instance without a model
LongTextNoModel ==
    /\ pc = "done"
    /\ summarizer = None
    /\ WordCount(clean_text(text)) > 1000

\* C19 as stated: with no model active a cleaned text of more than 1000 words
\* is still chunked and each chunk is summarized by the extractive fallback
\* before the summaries are joined.
Cex_C19 ==
    LongTextNoModel =>
        LET cs == chunk_text(clean_text(text), 1000)
            big == SelectSeq(cs, LAMBDA c : WordCount(c) > 50)
        IN /\ "chunked" \in path
           /\ chunks = cs
           /\ Len(ExtractiveCalls) >= Len(big)
           /\ \A k \in 1..Len(big) : ExtractiveCalls[k].text = big[k]

\* C19 amended: with no model active a cleaned text of more than 1000 words
\* is not chunked: the extractive summarizer is called once, on the whole
\* cleaned text with max_len, and its summary is the result; chunking is for
\* instances with a model.
Thm_C19 ==
    /\ LongTextNoModel =>
          /\ path = {"extractive"}
          /\ chunks = <<>> /\ chunk_summaries = <<>>
          /\ Len(calls) = 1
          /\ calls[1].fn = "extractive"
          /\ calls[1].text = clean_text(text)
          /\ WordCount(calls[1].text) > 1000
          /\ calls[1].target = max_len
          /\ result = Value(summarize(clean_text(text), max_len))
    /\ (pc = "done" /\ "chunked" \in path) => summarizer # None

\* no model, a cleaned text of 1500 words in three sentences, one extractive
\* call on all of it
Wit_C19 ==
    /\ LongTextNoModel
    /\ WordCount(cleaned_text) = 1500
    /\ Len(SplitDotSpace(cleaned_text)) = 3
    /\ Len(calls) = 1
    /\ calls[1].text = cleaned_text
    /\ chunks = <<>>

\* C20: in the chunked path a request with min_len <= max_len gets per-chunk
\* inference calls whose min_length exceeds their max_length exactly when
\* max_len // chunk_count is below 20 or min_len // chunk_count is above 130,
\* and then the call carries the pair as computed (20 over the quotient, or
\* the quotient over 130): nothing lowers the minimum or raises the maximum.
Thm_C20 ==
    (pc \in {"long", "resummarize"} /\ min_len <= max_len) =>
        LET n == Len(chunks)
            model_calls == ModelCalls
        IN \A i \in 1..Len(model_calls) :
              LET c == model_calls[i]
              IN /\ c.min_length > c.max_length <=>
                        (max_len \div n < 20 \/ min_len \div n > 130)
                 /\ max_len \div n < 20 =>
                        (c.min_length = 20 /\ c.max_length = max_len \div n)
                 /\ min_len \div n > 130 =>
                        (c.min_length = min_len \div n /\ c.max_length = 130)

\* six chunks with min_len = max_len = 100: the call for the first chunk got
\* min_length 20 and max_length 16
Wit_C20 ==
    /\ pc = "long"
    /\ Len(chunks) = 6
    /\ min_len = 100 /\ max_len = 100
    /\ Len(ModelCalls) >= 1
    /\ ModelCalls[1].min_length = 20
    /\ ModelCalls[1].max_length = 16

\* C21: what clean_text returns has no two whitespace characters in a row and
\* holds only word characters, spaces and the punctuation . , ! ? ; : -
Cex_C21 ==
    pc = "clean_done" =>
        /\ \A i \in 1..(Len(fn_out) - 1) : ~(IsSpace(fn_out[i]) /\ IsSpace(fn_out[i + 1]))
        /\ \A i \in 1..Len(fn_out) :
              IsWordChar(fn_out[i]) \/ fn_out[i] = " " \/ fn_out[i] \in Punctuation

\* what the two substitutions and the trimming leave of a fragment of a kind
CleanedFragment(kind, i) ==
    LET l == Letters[i]
    IN CASE kind = "w11" -> LongWord(l, 11)
         [] kind = "w10" -> LongWord(l, 10)
         [] kind = "ws" -> LongWord(l, 5) \o <<" ">> \o LongWord(l, 6)
         [] kind = "hash" -> LongWord(l, 4) \o <<" ", " ">> \o LongWord(l, 5)
         [] kind = "punct" -> <<l, ",", l, "!", l, "?", l, ";", l, ":", l, "-", l>>
         [] kind = "blank" -> <<>>

\* the fragments of a recipe that have at least limit characters once trimmed,
\* trimmed, in the order of the text
KeptFragments(recipe, limit) ==
    SelectSeq([i \in 1..Len(recipe) |-> CleanedFragment(recipe[i], i)],
              LAMBDA f : Len(f) >= limit)

\* C22 as stated: clean_text drops the fragments shorter than 10 characters
\* once trimmed and keeps those of 10 or more, in order, joined by '. '.
Cex_C22 ==
    pc = "clean_done" =>
        \A r \in CleanRecipes, e \in {<<>>, <<".">>} :
            fn_in = CleanTextOf(r, e) => fn_out = Join(KeptFragments(r, 10), DotSpace)

\* C22 amended: clean_text drops the fragments of at most 10 characters once
\* trimmed and keeps those of 11 or more, trimmed, in order, joined by '. ';
\* a text with no such fragment gives the empty string.
Thm_C22 ==
    pc = "clean_done" =>
        \A r \in CleanRecipes, e \in {<<>>, <<".">>} :
            fn_in = CleanTextOf(r, e) => fn_out = Join(KeptFragments(r, 11), DotSpace)

\* a fragment of 10 characters between two kept ones is dropped
Wit_C22 ==
    /\ pc = "clean_done"
    /\ fn_in = CleanTextOf(<<"w11", "w10", "ws">>, <<".">>)
    /\ fn_out = LongWord("a", 11) \o DotSpace \o LongWord("c", 5) \o <<" ">>
                   \o LongWord("c", 6)

\* C30: clean_text of what clean_text returned is that text again.
Cex_C30 == pc = "clean_again" => fn_out = fn_in

\* a step of an instance whose construction is over leaves the model and the
\* record of the loads as they are, and construction does not start again
ModelKept ==
    pc # "construct" =>
        /\ summarizer' = summarizer
        /\ attempted' = attempted
        /\ load_idx' = load_idx
        /\ pc' # "construct"

\* after construction the model is the one of the single load that succeeded,
\* the last one attempted, or there is none and every load failed
ChosenAtConstruction ==
    pc # "construct" =>
        LET n == Len(attempted)
        IN /\ n >= 1
           /\ \A i \in 1..(n - 1) : ~attempted[i].loaded
           /\ \A i \in 1..n : attempted[i].model = ModelHierarchy[i]
           /\ IF attempted[n].loaded
              THEN summarizer = attempted[n].model
              ELSE summarizer = None /\ n = Len(ModelHierarchy)

\* C23: the model of an instance is fixed by its construction: no step of any
\* request, whatever its outcome, loads a model or changes manager.summarizer,
\* so every request of the instance uses the model chosen at construction.
Thm_C23 == [][ModelKept]_vars /\ []ChosenAtConstruction

\* a request on the second model of the hierarchy has ended after an inference
\* call that raised, and the model is still the one loaded
Wit_C23 ==
    /\ pc = "done"
    /\ attempted = <<[model |-> "BART-large-CNN", loaded |-> FALSE],
                     [model |-> "BART-base", loaded |-> TRUE]>>
    /\ summarizer = "BART-base"
    /\ ModelCalls # <<>>
    /\ ModelLayerFailed

\* the calls a request has made are within its bounds: at most one inference
\* call per chunk of more than 50 words and one for the further pass, at most
\* one in the direct path, and every inference call that raised is followed
\* at once by one extractive call on the same text, so that in the loop
\* there are as many inference calls as summaries
CallsBounded ==
    LET model_calls == ModelCalls
        n == Len(calls)
    IN /\ "chunked" \in path =>
             /\ Len(model_calls) <=
                   Len(SelectSeq(chunks, LAMBDA c : WordCount(c) > 50)) + 1
             /\ pc = "long" => Len(model_calls) = Len(chunk_summaries)
             /\ chunk_idx <= Len(chunks) + 1
       /\ "direct" \in path => Len(model_calls) <= 1
       /\ path \cap {"chunked", "direct"} = {} => model_calls = <<>>
       /\ n <= 2 * Len(model_calls) + 1
       /\ \A i \in 1..n :
             /\ (calls[i].fn = "model" /\ calls[i].outcome = "raise") =>
                   /\ i < n
                   /\ calls[i + 1].fn = "extractive"
                   /\ calls[i + 1].text = calls[i].text
             /\ (calls[i].fn = "extractive" /\ summarizer # None) =>
                   /\ i > 1
                   /\ calls[i - 1].fn = "model"
                   /\ calls[i - 1].outcome = "raise"

InRequest == pc \in {"direct", "long", "resummarize"}

\* the most steps a request at position p, with idx - 1 of its n chunks behind
\* it, can still take
StepsLeft(p, idx, n) ==
    IF p = "long" THEN (n - idx) + 3
    ELSE IF p \in {"direct", "resummarize"} THEN 1
    ELSE 0

\* every step of a request that has started lowers the number of steps left,
\* which is never negative and at most the number of chunks plus 2
StepsDecrease ==
    InRequest =>
        /\ StepsLeft(pc', chunk_idx', Len(chunks')) < StepsLeft(pc, chunk_idx, Len(chunks))
        /\ StepsLeft(pc', chunk_idx', Len(chunks')) >= 0
        /\ StepsLeft(pc, chunk_idx, Len(chunks)) <= Len(chunks) + 2

\* C24: a request makes at most one inference call per chunk of more than 50
\* words plus one in the chunked path and at most one in the direct path, a
\* call that raised is followed by one extractive call for that unit and never
\* by a second inference call, and a request ends within a bounded number of
\* steps: each step lowers a count that starts at the number of chunks plus 2
\* at most.
Thm_C24 == [][StepsDecrease]_vars /\ []CallsBounded

\* three chunks, the first skipped: two chunk calls and the further pass all
\* raised, three inference calls and three extractive calls in all
Wit_C24 ==
    /\ pc = "done"
    /\ Len(chunks) = 3
    /\ "resummarized" \in path
    /\ Len(calls) = 6
    /\ Len(ModelCalls) = 3
    /\ ModelLayerFailed

\* the lengths of the words of s, in order
WordLengths(s) ==
    LET parts == SplitAt(s, {i \in 1..Len(s) : s[i] = " "}, 1)
    IN [j \in 1..Len(parts) |-> Len(parts[j])]

\* C25: the sentences of what summarize returns stand at strictly increasing
\* positions of the text, so that none is selected twice (the text's sentences
\* are one word each, longer from one sentence to the next).
Cex_C25 ==
    pc = "extract_done" =>
        LET lens == WordLengths(fn_out.val)
        IN \A j, k \in 1..Len(lens) : j < k => lens[j] < lens[k]

\* the loop over the chunks is over and every summary it collected has at most
\* min(130, max_len // chunk_count) words
SummariesWithinBudget ==
    /\ "chunked" \in path
    /\ pc \in {"long", "resummarize", "done"}
    /\ chunk_idx > Len(chunks)
    /\ \A k \in 1..Len(chunk_summaries) : WordCount(chunk_summaries[k]) <= PerChunkMax

\* C26: in the chunked path, if every chunk summary has at most min(130,
\* max_len // chunk_count) words, the joined summary has at most max_len words
\* and no further pass is made: the joined summary is the result.
Thm_C26 ==
    SummariesWithinBudget =>
        /\ WordCount(Combined(chunk_summaries)) <= max_len
        /\ pc # "resummarize"
        /\ "resummarized" \notin path
        /\ pc = "done" => result = Returned(Combined(chunk_summaries))

\* two chunks and max_len = 24: both summaries have the 12 words of their
\* budget, the joined summary has exactly max_len words and is the result
Wit_C26 ==
    /\ SummariesWithinBudget
    /\ pc = "done"
    /\ max_len = 24
    /\ Len(chunk_summaries) = 2
    /\ PerChunkMax = 12
    /\ WordCount(chunk_summaries[1]) = 12 /\ WordCount(chunk_summaries[2]) = 12
    /\ WordCount(result.val) = 24

\* C27: in the chunked path no two chunks in a row have 50 words or fewer, at
\* least one chunk has more than 50, and once the loop over the chunks is over
\* there is at least one chunk summary.
Thm_C27 ==
    ("chunked" \in path /\ pc \in {"long", "resummarize", "done"}) =>
        LET words == [i \in 1..Len(chunks) |-> WordCount(chunks[i])]
        IN /\ WordCount(cleaned_text) > 1000
           /\ \A i \in 1..(Len(chunks) - 1) : words[i] > 50 \/ words[i + 1] > 50
           /\ \E i \in 1..Len(chunks) : words[i] > 50
           /\ chunk_idx > Len(chunks) => chunk_summaries # <<>>
           /\ \A i \in 1..Len(chunks) :
                 (i < chunk_idx /\ i > 1 /\ words[i] <= 50) =>
                     Len(chunk_summaries) >= 1

\* two chunks, the second of exactly 50 words and skipped: one summary
Wit_C27 ==
    /\ pc = "done"
    /\ "chunked" \in path
    /\ Len(chunks) = 2
    /\ WordCount(chunks[1]) = 1000
    /\ WordCount(chunks[2]) = 50
    /\ Len(chunk_summaries) = 1

\* the sentences of a summary of the extractive summarizer, each with its
\* full stop
ResultSentences(v) ==
    LET parts == SplitDotSpace(v)
    IN [j \in 1..Len(parts) |->
          IF j < Len(parts) THEN parts[j] \o <<".">> ELSE parts[j]]

\* a request on a cleaned text of at least 50 words has ended on an instance
\* without a model
ExtractivePathUsed ==
    /\ pc = "done"
    /\ summarizer = None
    /\ WordCount(cleaned_text) >= 50

\* the result is a non-empty selection of the given sentences
SelectionOf(sentences) ==
    LET chosen == ResultSentences(result.val)
    IN /\ result.exc = None
       /\ result.val # <<>>
       /\ result.val # UnableMessage
       /\ \A j \in 1..Len(chosen) : \E i \in 1..Len(sentences) : chosen[j] = sentences[i]

\* C28 as stated: with no model and a cleaned text of at least 50 words the
\* result is a non-empty selection of sentences of the cleaned text, never the
\* unable-to-summarize message.
Cex_C28 ==
    ExtractivePathUsed =>
        SelectionOf([i \in 1..Len(SplitDotSpace(cleaned_text)) |->
                        Strip(SplitDotSpace(cleaned_text)[i]) \o <<".">>])

\* C28 amended: with no model and a cleaned text of at least 50 words the
\* result is the unable-to-summarize message when no sentence of the cleaned
\* text is longer than 20 characters, and otherwise a non-empty selection of
\* the sentences of the cleaned text that are longer than 20 characters.
Thm_C28 ==
    ExtractivePathUsed =>
        LET sentences == LongPieces(cleaned_text)
        IN IF sentences = <<>>
           THEN result = Returned(UnableMessage)
           ELSE SelectionOf(sentences)

\* 50 words in five sentences of 19 characters: the unable-to-summarize message
Wit_C28 ==
    /\ ExtractivePathUsed
    /\ WordCount(cleaned_text) = 50
    /\ Len(SplitDotSpace(cleaned_text)) = 5
    /\ result = Returned(UnableMessage)

\* C29: no exception leaves the try block of generate_summary: the except
\* clauses are never entered, so no request ends with the error text or with
\* an extractive call on the text cleaned again, and in the loop over the
\* chunks the except clause never adds a second extractive call for a chunk.
Thm_C29 ==
    /\ "outer_net" \notin path
    /\ raised = None
    /\ result.exc = None
    /\ result.val # ErrorMessage
    /\ \A i \in 1..Len(calls) :
          calls[i].fn = "extractive" =>
              IF summarizer = None
              THEN i = 1 /\ calls[i].text = cleaned_text /\ path = {"extractive"}
              ELSE /\ i > 1
                   /\ calls[i - 1].fn = "model"
                   /\ calls[i - 1].outcome = "raise"
                   /\ calls[i].text = calls[i - 1].text
                   /\ calls[i].target = calls[i - 1].max_length

\* the one inference call of the direct path raised and the request ended
\* with the extractive summary of _summarize_with_pipeline
Wit_C29 ==
    /\ pc = "done"
    /\ path = {"direct"}
    /\ Len(calls) = 2
    /\ calls[1].fn = "model" /\ calls[1].outcome = "raise"
    /\ calls[2].fn = "extractive"
    /\ result = Value(summarize(cleaned_text, max_len))

====
